---- MODULE Spec2Model ----
(***************************************************************************)
(* A model of the segment/page virtual-memory translator                   *)
(* (rust-virtual-memory): physical memory, paging disk, free-frame list,   *)
(* initialisation from init records, and the two translators.              *)
(*                                                                         *)
(* Representation.  PM[524288] and D[1024][512] are zero-initialised       *)
(* arrays; they are kept here as finite maps holding exactly the non-zero  *)
(* words (a word that is absent reads as 0), so that equal arrays are      *)
(* equal values.  A u32 is kept as two 16-bit limbs because the checker's  *)
(* integers are 32-bit signed; i32 values are kept as integers.            *)
(***************************************************************************)
EXTENDS Integers, Sequences, FiniteSets, TLC

\* ------------------------------------------------------------ constants.rs
S_BITS == 9
P_BITS == 9
W_BITS == 9
PAGE_SIZE == 2^W_BITS
PT_SIZE == 2^P_BITS
MAX_SEGMENTS == 2^S_BITS
ST_SIZE == MAX_SEGMENTS * 2
NUM_FRAMES == 1024
PM_SIZE == NUM_FRAMES * PAGE_SIZE
ST_FRAMES == 2
DISK_BLOCKS == 1024
BLOCK_SIZE == PAGE_SIZE
P_SHIFT == W_BITS
S_SHIFT == P_BITS + W_BITS
INVALID_ADDRESS == -1

\* ------------------------------------------------------------ u32 / i32
Limb == 2^16
I32_MAX == (2^30 - 1) + 2^30

\* The u32 with value n, for 0 <= n <= I32_MAX.
U32(n) == [hi |-> n \div Limb, lo |-> n % Limb]

\* The largest u32, 0xFFFFFFFF.
U32_MAX == [hi |-> Limb - 1, lo |-> Limb - 1]

\* v >> k on a u32 (0 <= k < 32).
Shr(v, k) ==
    IF k >= 16
    THEN [hi |-> 0, lo |-> v.hi \div 2^(k - 16)]
    ELSE [hi |-> v.hi \div 2^k,
          lo |-> (v.lo \div 2^k) + (v.hi % 2^k) * 2^(16 - k)]

\* v & ((1 << bits) - 1) on a u32 (0 <= bits <= 32).
AndMask(v, bits) ==
    IF bits >= 16
    THEN [hi |-> v.hi % 2^(bits - 16), lo |-> v.lo]
    ELSE [hi |-> 0, lo |-> v.lo % 2^bits]

\* The integer value of a u32 below 2^31.
ToInt(v) == v.hi * Limb + v.lo

\* v << k on a u32 (0 <= k < 32): the bits shifted past bit 31 are lost.
Shl(v, k) ==
    IF k >= 16
    THEN [hi |-> (v.lo * 2^(k - 16)) % Limb, lo |-> 0]
    ELSE [hi |-> (v.hi * 2^k + v.lo \div 2^(16 - k)) % Limb,
          lo |-> (v.lo * 2^k) % Limb]

\* a | b on the lowest n bits of two naturals.
RECURSIVE OrBits(_, _, _)
OrBits(a, b, n) ==
    IF n = 0 THEN 0
    ELSE (IF a % 2 = 1 \/ b % 2 = 1 THEN 1 ELSE 0)
         + 2 * OrBits(a \div 2, b \div 2, n - 1)

\* a | b on two u32.
OrU32(a, b) == [hi |-> OrBits(a.hi, b.hi, 16), lo |-> OrBits(a.lo, b.lo, 16)]

\* The comparison with > in place of >=.
GeAsU32_strict(a, z) == IF z < 0 THEN FALSE ELSE a > z

\* The comparison made on the signed value of z.
GeAsU32_signed(a, z) == a >= z

\* a >= (z as u32), for a u32 value a below 2^31 given as an integer and an
\* i32 z: a negative z is reinterpreted as z + 2^32 >= 2^31, above every such a.
GeAsU32(a, z) == IF z < 0 THEN FALSE ELSE a >= z

\* ------------------------------------------------------------ VirtualAddress
\* from_raw with the mask on the page number forgotten.
from_raw_p_unmasked(va) ==
    [va |-> va,
     s  |-> ToInt(Shr(va, S_SHIFT)),
     p  |-> ToInt(Shr(va, P_SHIFT)),
     w  |-> ToInt(AndMask(va, W_BITS)),
     pw |-> ToInt(AndMask(va, P_BITS + W_BITS))]

from_raw(va) ==
    [va |-> va,
     s  |-> ToInt(Shr(va, S_SHIFT)),
     p  |-> ToInt(AndMask(Shr(va, P_SHIFT), P_BITS)),
     w  |-> ToInt(AndMask(va, W_BITS)),
     pw |-> ToInt(AndMask(va, P_BITS + W_BITS))]

\* ------------------------------------------------------------ TranslationResult
Success(pa) == [tag |-> "Success", pa |-> pa]
SegmentBoundaryViolation == [tag |-> "SegmentBoundaryViolation", pa |-> INVALID_ADDRESS]
InvalidSegment == [tag |-> "InvalidSegment", pa |-> INVALID_ADDRESS]
InvalidPage == [tag |-> "InvalidPage", pa |-> INVALID_ADDRESS]

\* to_output with 0 in place of INVALID_ADDRESS.
to_output_zero_on_error(r) == IF r.tag = "Success" THEN r.pa ELSE 0

to_output(r) == IF r.tag = "Success" THEN r.pa ELSE INVALID_ADDRESS

\* ------------------------------------------------------------ PhysicalMemory
\* PhysicalMemory::new: all words zero.
NewPM == [a \in {} |-> 0]

InPM(address) == address >= 0 /\ address < PM_SIZE

\* Whether data[pt_frame as usize * PAGE_SIZE + page] is inside the array
\* (pt_frame >= 0, page in 0..511), written without forming the product.
PageWordInPM(pt_frame, page) == pt_frame < NUM_FRAMES /\ InPM(pt_frame * PAGE_SIZE + page)

Read(m, address) == IF address \in DOMAIN m THEN m[address] ELSE 0

Write(m, address, value) ==
    IF value = 0
    THEN [x \in DOMAIN m \ {address} |-> m[x]]
    ELSE (address :> value) @@ m

get_segment_size(m, segment) == Read(m, 2 * segment)

get_segment_pt_location(m, segment) == Read(m, 2 * segment + 1)

set_segment_entry(m, segment, size, pt_location) ==
    Write(Write(m, 2 * segment, size), 2 * segment + 1, pt_location)

get_page_frame(m, pt_frame, page) == Read(m, pt_frame * PAGE_SIZE + page)

set_page_entry(m, pt_frame, page, frame_location) ==
    Write(m, pt_frame * PAGE_SIZE + page, frame_location)

frame_to_address(frame) == frame * PAGE_SIZE

\* ------------------------------------------------------------ Disk
\* Disk::new: all words zero.  d maps each block that has a non-zero word
\* to the map of its non-zero words by offset.
NewDisk == [b \in {} |-> [i \in {} |-> 0]]

InDisk(block) == block >= 0 /\ block < DISK_BLOCKS

Block(d, block) == IF block \in DOMAIN d THEN d[block] ELSE [i \in {} |-> 0]

DiskRead(d, block, offset) == Read(Block(d, block), offset)

DiskWrite(d, block, offset, value) ==
    LET blk == Write(Block(d, block), offset, value)
    IN IF DOMAIN blk = {}
       THEN [b \in DOMAIN d \ {block} |-> d[b]]
       ELSE (block :> blk) @@ d

\* A copy that skips the zero words of the block.
read_block_merge(d, block, m, pm_start) ==
    LET blk == Block(d, block)
        new == {pm_start + i : i \in {j \in DOMAIN blk : blk[j] # 0}}
    IN [x \in DOMAIN m \cup new |->
           IF x \in new THEN blk[x - pm_start] ELSE m[x]]

\* Disk::read_block: pm[pm_start + i] := D[block][i] for every i in 0..511.
read_block(d, block, m, pm_start) ==
    LET kept == {a \in DOMAIN m : a < pm_start \/ a >= pm_start + BLOCK_SIZE}
        blk  == Block(d, block)
        new  == {pm_start + i : i \in DOMAIN blk}
    IN [a \in kept \cup new |->
           IF a \in kept THEN m[a] ELSE blk[a - pm_start]]

\* Loads that copy nothing.
load_pt_from_disk_nothing(d, disk_block, frame, m) == m

load_page_from_disk_nothing(d, disk_block, frame, m) == m

load_pt_from_disk(d, disk_block, frame, m) ==
    read_block(d, disk_block, m, frame_to_address(frame))

load_page_from_disk(d, disk_block, frame, m) ==
    read_block(d, disk_block, m, frame_to_address(frame))

\* ------------------------------------------------------------ FreeFrameList
\* The Vec<u32> free_frames, used as a stack: element Len is the top.
RemoveAt(seq, pos) == SubSeq(seq, 1, pos - 1) \o SubSeq(seq, pos + 1, Len(seq))

\* The list built without rev(): frame 1023 on top.
FreeFrameList_new_ascending == [i \in 1..(NUM_FRAMES - ST_FRAMES) |-> ST_FRAMES + i - 1]

\* The list built from frame 0 on, the segment table's frames included.
FreeFrameList_new_from_zero == [i \in 1..NUM_FRAMES |-> NUM_FRAMES - i]

\* FreeFrameList::new: (ST_FRAMES..NUM_FRAMES).rev().collect()
FreeFrameList_new == [i \in 1..(NUM_FRAMES - ST_FRAMES) |-> NUM_FRAMES - i]

\* mark_occupied with Vec::swap_remove: the top of the stack takes the place
\* of the frame removed.
mark_occupied_swap_remove(f, frame) ==
    LET hits == {i \in 1..Len(f) : f[i] = frame}
        pos  == CHOOSE i \in hits : \A j \in hits : i <= j
    IN IF hits = {} THEN f
       ELSE [i \in 1..(Len(f) - 1) |-> IF i = pos THEN f[Len(f)] ELSE f[i]]

\* mark_occupied that removes nothing.
mark_occupied_noop(f, frame) == f

mark_occupied(f, frame) ==
    LET hits == {i \in 1..Len(f) : f[i] = frame}
    IN IF hits = {} THEN f
       ELSE RemoveAt(f, CHOOSE i \in hits : \A j \in hits : i <= j)

\* FreeFrameList::allocate: Vec::pop; <<>> stands for None, <<x>> for Some(x).
allocate_frame(f) == IF Len(f) = 0 THEN << >> ELSE <<f[Len(f)]>>
\* An allocate that returns the top frame without removing it.
allocate_rest_keep(f) == f

allocate_rest(f) == IF Len(f) = 0 THEN f ELSE SubSeq(f, 1, Len(f) - 1)

free_count(f) == Len(f)

is_free(f, frame) == \E i \in 1..Len(f) : f[i] = frame

\* ------------------------------------------------------------ translation.rs
\* What one call of a translator leaves behind: its return value, the memory
\* and free list after it, the frames it took from the free list (in order),
\* and whether it ended in a panic ("index": an array index out of bounds;
\* "overflow": i32 arithmetic overflow with overflow checks on; "unwrap": a
\* None unwrapped) instead of returning; "" when it returned.
Outcome(result, m, f, taken, abort) ==
    [result |-> result, pm |-> m, ffl |-> f, allocs |-> taken, abort |-> abort]

Aborted == [tag |-> "Aborted", pa |-> INVALID_ADDRESS]

\* page_frame * PAGE_SIZE as i32 + va.w as i32, for page_frame > 0.
\* With overflow checks the sum panics when it leaves i32; without them it
\* wraps modulo 2^32.
PaOverflows(page_frame, w) == page_frame > (I32_MAX - w) \div PAGE_SIZE

PaWrapped(page_frame, w) ==
    LET q == page_frame % (2^(32 - W_BITS))
    IN IF q < 2^(31 - W_BITS)
       THEN q * PAGE_SIZE + w
       ELSE (q - 2^(32 - W_BITS)) * PAGE_SIZE + w

ComputePA(page_frame, w, m, f, taken, checks) ==
    IF PaOverflows(page_frame, w)
    THEN IF checks
         THEN Outcome(Aborted, m, f, taken, "overflow")
         ELSE Outcome(Success(PaWrapped(page_frame, w)), m, f, taken, "")
    ELSE Outcome(Success(page_frame * PAGE_SIZE + w), m, f, taken, "")

\* translate with the residency test pt_location < 0 in place of <= 0.
translate_zero_location_resident(va, m, f, checks) ==
    LET segment_size == get_segment_size(m, va.s)
        pt_location  == get_segment_pt_location(m, va.s)
    IN IF segment_size = 0 /\ pt_location = 0
       THEN Outcome(InvalidSegment, m, f, << >>, "")
       ELSE IF GeAsU32(va.pw, segment_size)
       THEN Outcome(SegmentBoundaryViolation, m, f, << >>, "")
       ELSE IF pt_location < 0
       THEN Outcome(InvalidSegment, m, f, << >>, "")
       ELSE IF ~PageWordInPM(pt_location, va.p)
       THEN Outcome(Aborted, m, f, << >>, "index")
       ELSE LET page_frame == get_page_frame(m, pt_location, va.p)
            IN IF page_frame <= 0
               THEN Outcome(InvalidPage, m, f, << >>, "")
               ELSE ComputePA(page_frame, va.w, m, f, << >>, checks)

\* translate (no demand paging): reads pm only.
translate(va, m, f, checks) ==
    LET segment_size == get_segment_size(m, va.s)
        pt_location  == get_segment_pt_location(m, va.s)
    IN IF segment_size = 0 /\ pt_location = 0
       THEN Outcome(InvalidSegment, m, f, << >>, "")
       ELSE IF GeAsU32(va.pw, segment_size)
       THEN Outcome(SegmentBoundaryViolation, m, f, << >>, "")
       ELSE IF pt_location <= 0
       THEN Outcome(InvalidSegment, m, f, << >>, "")
       ELSE IF ~PageWordInPM(pt_location, va.p)
       THEN Outcome(Aborted, m, f, << >>, "index")
       ELSE LET page_frame == get_page_frame(m, pt_location, va.p)
            IN IF page_frame <= 0
               THEN Outcome(InvalidPage, m, f, << >>, "")
               ELSE ComputePA(page_frame, va.w, m, f, << >>, checks)

\* Steps 5-8 with the allocation of step 6 unwrapped: no free frame panics.
ResolvePage_unwrap(va, m, d, f, pt_location, taken, checks) ==
    IF ~PageWordInPM(pt_location, va.p)
    THEN Outcome(Aborted, m, f, taken, "index")
    ELSE
    LET page_frame == get_page_frame(m, pt_location, va.p)
        got == allocate_frame(f)
    IN IF page_frame < 0
       THEN IF got = << >> \/ ~InDisk(-page_frame)
            THEN Outcome(Aborted, m, f, taken, IF got = << >> THEN "unwrap" ELSE "index")
            ELSE ComputePA(got[1], va.w,
                           set_page_entry(load_page_from_disk(d, -page_frame, got[1], m),
                                          pt_location, va.p, got[1]),
                           allocate_rest(f), taken \o got, checks)
       ELSE IF page_frame = 0
       THEN Outcome(InvalidPage, m, f, taken, "")
       ELSE ComputePA(page_frame, va.w, m, f, taken, checks)

\* Steps 5-8 with an entry of 0 taken for a page on disk (block 0).
ResolvePage_zero_is_fault(va, m, d, f, pt_location, taken, checks) ==
    IF ~PageWordInPM(pt_location, va.p)
    THEN Outcome(Aborted, m, f, taken, "index")
    ELSE
    LET page_frame == get_page_frame(m, pt_location, va.p)
        got == allocate_frame(f)
    IN IF page_frame <= 0
       THEN IF got = << >>
            THEN Outcome(InvalidPage, m, f, taken, "")
            ELSE IF ~InDisk(-page_frame)
            THEN Outcome(Aborted, m, allocate_rest(f), taken \o got, "index")
            ELSE ComputePA(got[1], va.w,
                           set_page_entry(load_page_from_disk(d, -page_frame, got[1], m),
                                          pt_location, va.p, got[1]),
                           allocate_rest(f), taken \o got, checks)
       ELSE ComputePA(page_frame, va.w, m, f, taken, checks)

\* Steps 5-8 clearing the entry of a page that cannot be loaded.
ResolvePage_forget_entry(va, m, d, f, pt_location, taken, checks) ==
    IF ~PageWordInPM(pt_location, va.p)
    THEN Outcome(Aborted, m, f, taken, "index")
    ELSE
    LET page_frame == get_page_frame(m, pt_location, va.p)
        got == allocate_frame(f)
    IN IF page_frame < 0
       THEN IF got = << >>
            THEN Outcome(InvalidPage, set_page_entry(m, pt_location, va.p, 0), f, taken, "")
            ELSE IF ~InDisk(-page_frame)
            THEN Outcome(Aborted, m, allocate_rest(f), taken \o got, "index")
            ELSE ComputePA(got[1], va.w,
                           set_page_entry(load_page_from_disk(d, -page_frame, got[1], m),
                                          pt_location, va.p, got[1]),
                           allocate_rest(f), taken \o got, checks)
       ELSE IF page_frame = 0
       THEN Outcome(InvalidPage, m, f, taken, "")
       ELSE ComputePA(page_frame, va.w, m, f, taken, checks)

\* Steps 5-8 of translate_with_demand_paging, entered with the page table
\* taken to be in frame pt_location, memory m, free list f, and the frames
\* `taken` already allocated by step 4.
ResolvePage(va, m, d, f, pt_location, taken, checks) ==
    IF ~PageWordInPM(pt_location, va.p)
    THEN Outcome(Aborted, m, f, taken, "index")
    ELSE
    LET page_frame == get_page_frame(m, pt_location, va.p)
    IN IF page_frame < 0
       THEN LET disk_block == -page_frame
                got == allocate_frame(f)
            IN IF got = << >>
               THEN Outcome(InvalidPage, m, f, taken, "")
               ELSE LET new_frame == got[1]
                        f2 == allocate_rest(f)
                    IN IF ~InDisk(disk_block)
                       THEN Outcome(Aborted, m, f2, taken \o got, "index")
                       ELSE LET m1 == load_page_from_disk(d, disk_block, new_frame, m)
                                m2 == set_page_entry(m1, pt_location, va.p, new_frame)
                            IN ComputePA(new_frame, va.w, m2, f2, taken \o got, checks)
       ELSE IF page_frame = 0
       THEN Outcome(InvalidPage, m, f, taken, "")
       ELSE ComputePA(page_frame, va.w, m, f, taken, checks)

\* A translator that services the page-table fault before the boundary check.
translate_with_demand_paging_load_first(va, m, d, f, checks) ==
    LET segment_size == get_segment_size(m, va.s)
        pt_location  == get_segment_pt_location(m, va.s)
        got          == allocate_frame(f)
        faults       == pt_location < 0 /\ got # << >> /\ InDisk(-pt_location)
        m2 == IF faults
              THEN set_segment_entry(load_pt_from_disk(d, -pt_location, got[1], m),
                                     va.s, segment_size, got[1])
              ELSE m
        f1 == IF faults THEN allocate_rest(f) ELSE f
        taken == IF faults THEN got ELSE << >>
    IN IF segment_size = 0 /\ pt_location = 0
       THEN Outcome(InvalidSegment, m, f, << >>, "")
       ELSE IF pt_location < 0 /\ ~faults
       THEN IF got = << >> THEN Outcome(InvalidSegment, m, f, << >>, "")
            ELSE Outcome(Aborted, m, allocate_rest(f), got, "index")
       ELSE IF GeAsU32(va.pw, segment_size)
       THEN Outcome(SegmentBoundaryViolation, m2, f1, taken, "")
       ELSE ResolvePage(va, m2, d, f1, IF faults THEN got[1] ELSE pt_location, taken, checks)

\* A translator without the test for a nonexistent segment (step 2).
translate_with_demand_paging_no_exist_check(va, m, d, f, checks) ==
    LET segment_size == get_segment_size(m, va.s)
        pt_location  == get_segment_pt_location(m, va.s)
    IN IF GeAsU32(va.pw, segment_size)
       THEN Outcome(SegmentBoundaryViolation, m, f, << >>, "")
       ELSE IF pt_location < 0
       THEN LET got == allocate_frame(f)
            IN IF got = << >>
               THEN Outcome(InvalidSegment, m, f, << >>, "")
               ELSE IF ~InDisk(-pt_location)
               THEN Outcome(Aborted, m, allocate_rest(f), got, "index")
               ELSE ResolvePage(va,
                                set_segment_entry(load_pt_from_disk(d, -pt_location, got[1], m),
                                                  va.s, segment_size, got[1]),
                                d, allocate_rest(f), got[1], got, checks)
       ELSE ResolvePage(va, m, d, f, pt_location, << >>, checks)

translate_with_demand_paging(va, m, d, f, checks) ==
    LET segment_size == get_segment_size(m, va.s)
        pt_location  == get_segment_pt_location(m, va.s)
    IN IF segment_size = 0 /\ pt_location = 0
       THEN Outcome(InvalidSegment, m, f, << >>, "")
       ELSE IF GeAsU32(va.pw, segment_size)
       THEN Outcome(SegmentBoundaryViolation, m, f, << >>, "")
       ELSE IF pt_location < 0
       THEN LET disk_block == -pt_location
                got == allocate_frame(f)
            IN IF got = << >>
               THEN Outcome(InvalidSegment, m, f, << >>, "")
               ELSE LET new_frame == got[1]
                        f1 == allocate_rest(f)
                    IN IF ~InDisk(disk_block)
                       THEN Outcome(Aborted, m, f1, got, "index")
                       ELSE LET m1 == load_pt_from_disk(d, disk_block, new_frame, m)
                                m2 == set_segment_entry(m1, va.s, segment_size, new_frame)
                            IN ResolvePage(va, m2, d, f1, new_frame, got, checks)
       ELSE ResolvePage(va, m, d, f, pt_location, << >>, checks)

\* ------------------------------------------------------------ io.rs
\* The state InitData::apply works on; abort is "index" once a record has
\* indexed outside physical memory or the disk (a panic), "" otherwise.
ApplyState(m, d, f, abort) == [pm |-> m, disk |-> d, ffl |-> f, abort |-> abort]

\* The loop body marking the frame of the same number as a disk block too.
ApplySTRecord_mark_block(entry, a) ==
    ApplyState(set_segment_entry(a.pm, entry[1], entry[2], entry[3]),
               a.disk,
               IF entry[3] # 0
               THEN mark_occupied(a.ffl, IF entry[3] > 0 THEN entry[3] ELSE -entry[3])
               ELSE a.ffl,
               a.abort)

\* InitData::apply, body of the loop over st_entries.
ApplySTRecord(entry, a) ==
    LET segment     == entry[1]
        size        == entry[2]
        pt_location == entry[3]
    IN ApplyState(set_segment_entry(a.pm, segment, size, pt_location),
                  a.disk,
                  IF pt_location > 0 THEN mark_occupied(a.ffl, pt_location) ELSE a.ffl,
                  a.abort)

\* InitData::apply, body of the loop over pt_entries.
ApplyPTRecord(entry, a) ==
    LET segment        == entry[1]
        page           == entry[2]
        frame_location == entry[3]
        pt_location    == get_segment_pt_location(a.pm, segment)
        f1 == IF frame_location > 0 THEN mark_occupied(a.ffl, frame_location) ELSE a.ffl
    IN IF a.abort # "" THEN a
       ELSE IF pt_location >= 0
       THEN IF ~PageWordInPM(pt_location, page)
            THEN ApplyState(a.pm, a.disk, a.ffl, "index")
            ELSE ApplyState(set_page_entry(a.pm, pt_location, page, frame_location),
                            a.disk, f1, "")
       ELSE IF ~InDisk(-pt_location)
            THEN ApplyState(a.pm, a.disk, a.ffl, "index")
            ELSE ApplyState(a.pm, DiskWrite(a.disk, -pt_location, page, frame_location),
                            f1, "")

\* The two loops: the records lo..hi of entries, in order, from state a
\* (the range is halved so that the evaluation nests only log-deep; after
\* a panic no further record is applied).
RECURSIVE ApplySTRange(_, _, _, _)
ApplySTRange(entries, lo, hi, a) ==
    IF lo > hi THEN a
    ELSE IF lo = hi THEN ApplySTRecord(entries[lo], a)
    ELSE LET mid == (lo + hi) \div 2
             left == ApplySTRange(entries, lo, mid, a)
         IN IF left.abort # "" THEN left
            ELSE ApplySTRange(entries, mid + 1, hi, left)

RECURSIVE ApplyPTRange(_, _, _, _)
ApplyPTRange(entries, lo, hi, a) ==
    IF lo > hi THEN a
    ELSE IF lo = hi THEN ApplyPTRecord(entries[lo], a)
    ELSE LET mid == (lo + hi) \div 2
             left == ApplyPTRange(entries, lo, mid, a)
         IN IF left.abort # "" THEN left
            ELSE ApplyPTRange(entries, mid + 1, hi, left)

apply(st, pt, m, d) ==
    LET a == ApplySTRange(st, 1, Len(st), ApplyState(m, d, FreeFrameList_new, ""))
    IN ApplyPTRange(pt, 1, Len(pt), a)

\* ------------------------------------------------------------ main.rs
\* needs_demand_paging looking at the segment-table records only.
needs_demand_paging_st_only(st, pt) == \E i \in 1..Len(st) : st[i][3] < 0

needs_demand_paging(st, pt) ==
    \/ \E i \in 1..Len(st) : st[i][3] < 0
    \/ \E i \in 1..Len(pt) : pt[i][3] < 0

\* ------------------------------------------------------------ inputs
\* Bounds on the number of addresses of one batch.
MaxBatch == 4
MaxSteps == 2
MaxFull == 3

\* Bound on the number of allocate() calls on a free list taken alone.
MaxAllocs == 1030

\* A raw address with the given fields (s below 8192).
Raw(s, p, w) == U32((s * PT_SIZE + p) * PAGE_SIZE + w)

\* Scenario A (init "6 3000 4" / "6 5 9") and Scenario B
\* (init "8 4000 3 9 5000 -7" / "8 0 10 8 1 -20 9 0 13 9 1 -25").
ScenarioA == [st |-> << <<6, 3000, 4>> >>, pt |-> << <<6, 5, 9>> >>]
ScenarioB == [st |-> << <<8, 4000, 3>>, <<9, 5000, -7>> >>,
              pt |-> << <<8, 0, 10>>, <<8, 1, -20>>, <<9, 0, 13>>, <<9, 1, -25>> >>]

ScenarioFiles == {ScenarioA, ScenarioB}

ScenarioAddrs == {U32(1575424), U32(1575863), U32(1575864),
                  U32(2097162), U32(2097674), U32(2359306), U32(2359818)}

\* ------------------------------------------------------------ the run
VARIABLES
    pc,                 \* "init": constructed; "run": initialised; "aborted": panicked
    st_entries,         \* InitData.st_entries
    pt_entries,         \* InitData.pt_entries
    use_demand_paging,  \* run(): needs_demand_paging(&init_data)
    pm,                 \* PhysicalMemory
    disk,               \* Disk
    ffl,                \* FreeFrameList.free_frames
    vas,                \* the addresses of the batch translated so far
    results,            \* the TranslationResult of each of them
    outs,               \* the Vec<i32> collected by the batch
    allocs,             \* per address, the frames its translation allocated
    decoded             \* the VirtualAddress structs built by from_raw alone

vars == <<pc, st_entries, pt_entries, use_demand_paging, pm, disk, ffl,
          vas, results, outs, allocs, decoded>>

\* run(), steps 1-2 up to the construction of memory and disk.
InitWith(files) ==
    /\ \E file \in files :
          /\ st_entries = file.st
          /\ pt_entries = file.pt
          /\ use_demand_paging = needs_demand_paging(file.st, file.pt)
    /\ pc = "init"
    /\ pm = NewPM
    /\ disk = NewDisk
    /\ ffl = FreeFrameList_new
    /\ vas = << >>
    /\ results = << >>
    /\ outs = << >>
    /\ allocs = << >>
    /\ decoded = << >>

\* run(), step 2: init_data.apply(&mut pm, &mut disk).
Apply ==
    /\ pc = "init"
    /\ LET a == apply(st_entries, pt_entries, pm, disk)
       IN /\ pc' = IF a.abort = "" THEN "run" ELSE "aborted"
          /\ pm' = a.pm
          /\ disk' = a.disk
          /\ ffl' = a.ffl
    /\ UNCHANGED <<st_entries, pt_entries, use_demand_paging, vas, results, outs, allocs,
                   decoded>>

\* One element of translate_batch / translate_batch_with_demand_paging:
\* from_raw, the translator of the run's mode, to_output, push.
TranslateOne(raw, checks) ==
    /\ pc = "run"
    /\ LET va == from_raw(raw)
           o  == IF use_demand_paging
                 THEN translate_with_demand_paging(va, pm, disk, ffl, checks)
                 ELSE translate(va, pm, ffl, checks)
       IN /\ vas' = Append(vas, raw)
          /\ results' = Append(results, o.result)
          /\ allocs' = Append(allocs, o.allocs)
          /\ IF o.abort = ""
             THEN /\ pc' = "run"
                  /\ pm' = o.pm
                  /\ ffl' = o.ffl
                  /\ outs' = Append(outs, to_output(o.result))
             ELSE /\ pc' = "aborted"
                  /\ UNCHANGED <<pm, ffl, outs>>
    /\ UNCHANGED <<st_entries, pt_entries, use_demand_paging, disk, decoded>>

\* The scenarios of the test suite: batches of up to MaxBatch addresses.
InitScenario == InitWith(ScenarioFiles)

TranslateScenario ==
    /\ Len(vas) < MaxBatch
    /\ \E raw \in ScenarioAddrs : \E checks \in BOOLEAN : TranslateOne(raw, checks)

NextScenario == Apply \/ TranslateScenario

SpecScenario == InitScenario /\ [][NextScenario]_vars

\* ------------------------------------------------------------ general runs
\* Init files over segments 0 and 1: every segment-table choice with every
\* page-table choice.
STChoices ==
    { << >>,
      << <<1, 600, 3>> >>,                      \* page table resident
      << <<1, 600, -7>> >>,                     \* page table on disk
      << <<1, 600, 0>> >>,                      \* declared size, no page table
      << <<1, 0, -7>> >>,                       \* zero length, on disk
      << <<1, 0, 3>> >>,                        \* zero length, resident
      << <<1, -600, 3>> >>,                     \* negative size word
      << <<0, 600, 4>>, <<1, 600, -7>> >>,      \* two segments
      << <<0, 600, -8>>, <<1, 600, 0>> >>,
      << <<0, -5000, 4>>, <<1, 600, 0>>, <<2, 600, -9>> >>,
      << <<0, 4194304, 4>>, <<1, 600, 0>>, <<2, 600, -9>> >>,
      << <<1, 600, 3>>, <<1, 700, -7>> >>,      \* a segment given twice
      << <<0, 600, 1>>, <<1, 600, -9>> >>,      \* a page table in frame 1
      << <<0, 600, -7>>, <<1, 600, -7>> >> }    \* two page tables on one block

PTChoices ==
    { << >>,
      << <<1, 0, 10>>, <<1, 1, -20>> >>,
      << <<1, 0, -20>>, <<1, 1, -21>> >>,
      << <<1, 1, 11>> >>,
      << <<0, 0, -20>> >>,
      << <<0, 0, 12>>, <<0, 1, -22>>, <<1, 1, -21>> >>,
      << <<0, 1, -7>>, <<1, 1, -21>> >> }      \* a page on a block that has words

BaseFiles == {[st |-> st, pt |-> pt] : st \in STChoices, pt \in PTChoices}

\* The positive frame values an init file mentions.
MentionedFrames(file) ==
    {file.st[i][3] : i \in {j \in 1..Len(file.st) : file.st[j][3] > 0}}
    \cup {file.pt[i][3] : i \in {j \in 1..Len(file.pt) : file.pt[j][3] > 0}}

\* Records that leave few frames free: two zero-length segments (510, 511)
\* whose page tables, on disk blocks 1022 and 1023, map one page to each
\* frame of from..1023 that the file does not mention itself.
FillerST == << <<510, 0, -1022>>, <<511, 0, -1023>> >>

FillerPT(file, from) ==
    LET frames == SelectSeq([i \in 1..(NUM_FRAMES - from) |-> from + i - 1],
                            LAMBDA fr : fr \notin MentionedFrames(file))
    IN [i \in 1..Len(frames) |->
           IF i <= PT_SIZE THEN <<511, i - 1, frames[i]>>
                           ELSE <<510, i - 1 - PT_SIZE, frames[i]>>]

Filled(file, from) ==
    [st |-> file.st \o FillerST, pt |-> file.pt \o FillerPT(file, from)]

FillFrom == {2, 3, 5}

FullFiles ==
    {Filled([st |-> st, pt |-> pt], from) :
        st \in { << <<1, 600, 3>> >>, << <<1, 600, -7>> >> },
        pt \in { << <<1, 0, 10>>, <<1, 1, -20>> >>,
                 << <<1, 0, -20>>, <<1, 1, -21>> >> },
        from \in FillFrom}

InitFiles == BaseFiles

\* The addresses of a general batch: segments 0 and 1, pages 0 and 1, the
\* last word inside and the first word outside a segment of size 600, a
\* segment number above 511 (768: its table words are words 0 and 1 of
\* frame 3) and the largest u32.
Addrs == {Raw(0, 0, 10), Raw(1, 0, 10), Raw(1, 1, 87), Raw(1, 1, 88),
          Raw(0, 1, 87), Raw(768, 0, 5), U32_MAX}

Init == InitWith(InitFiles)

Translate ==
    /\ Len(vas) < MaxSteps
    /\ \E raw \in Addrs : \E checks \in BOOLEAN : TranslateOne(raw, checks)

Next == Apply \/ Translate

Spec == Init /\ [][Next]_vars

\* The translator without demand paging called on a memory initialised from
\* any of the init files, as a caller of apply and translate_batch does
\* (no needs_demand_paging in between).
InitBasic ==
    /\ \E file \in InitFiles :
          /\ st_entries = file.st
          /\ pt_entries = file.pt
    /\ use_demand_paging = FALSE
    /\ pc = "init"
    /\ pm = NewPM
    /\ disk = NewDisk
    /\ ffl = FreeFrameList_new
    /\ vas = << >>
    /\ results = << >>
    /\ outs = << >>
    /\ allocs = << >>
    /\ decoded = << >>

SpecBasic == InitBasic /\ [][Next]_vars

\* Runs on an almost full memory: at most three frames are free after
\* initialisation.
FullAddrs == {Raw(1, 0, 10), Raw(1, 1, 87), Raw(1, 1, 88), Raw(0, 0, 10)}

InitFull == InitWith(FullFiles)

TranslateFull ==
    /\ Len(vas) < MaxFull
    /\ \E raw \in FullAddrs : \E checks \in BOOLEAN : TranslateOne(raw, checks)

NextFull == Apply \/ TranslateFull

SpecFull == InitFull /\ [][NextFull]_vars

\* ------------------------------------------------------------ the free list alone
\* FreeFrameList::new() followed by any calls of mark_occupied and allocate;
\* allocs records what each allocate() returned.
MarkFrames == {0, 1, 3, 1023, 1024}

InitFFL ==
    /\ pc = "ffl"
    /\ st_entries = << >>
    /\ pt_entries = << >>
    /\ use_demand_paging = FALSE
    /\ pm = NewPM
    /\ disk = NewDisk
    /\ ffl = FreeFrameList_new
    /\ vas = << >>
    /\ results = << >>
    /\ outs = << >>
    /\ allocs = << >>
    /\ decoded = << >>

MarkOccupied ==
    /\ pc = "ffl"
    /\ \E frame \in MarkFrames : ffl' = mark_occupied(ffl, frame)
    /\ UNCHANGED <<pc, st_entries, pt_entries, use_demand_paging, pm, disk,
                   vas, results, outs, allocs, decoded>>

Allocate ==
    /\ pc = "ffl"
    /\ Len(allocs) < MaxAllocs
    /\ allocs' = Append(allocs, allocate_frame(ffl))
    /\ ffl' = allocate_rest(ffl)
    /\ UNCHANGED <<pc, st_entries, pt_entries, use_demand_paging, pm, disk,
                   vas, results, outs, decoded>>

NextFFL == MarkOccupied \/ Allocate

SpecFFL == InitFFL /\ [][NextFFL]_vars

\* ------------------------------------------------------------ from_raw alone
\* VirtualAddress::from_raw applied to one raw u32 drawn from RawInputs:
\* every pair of a high and a low 16-bit limb below (bits 27-31 clear and
\* set, fields at 0, 1 and 511, 789002 = 12 * 65536 + 2570).
HiLimbs == {0, 1, 3, 4, 6, 12, 24, 2047, 2048, 2052, 4096, 32768, 65535}
LoLimbs == {0, 1, 10, 511, 512, 1023, 2570, 32768, 65535}

RawInputs == {[hi |-> h, lo |-> l] : h \in HiLimbs, l \in LoLimbs}

InitVA ==
    /\ pc = "va"
    /\ st_entries = << >>
    /\ pt_entries = << >>
    /\ use_demand_paging = FALSE
    /\ pm = NewPM
    /\ disk = NewDisk
    /\ ffl = FreeFrameList_new
    /\ vas \in {<<raw>> : raw \in RawInputs}
    /\ results = << >>
    /\ outs = << >>
    /\ allocs = << >>
    /\ decoded = << >>

Decompose ==
    /\ pc = "va"
    /\ decoded = << >>
    /\ decoded' = <<from_raw(vas[1])>>
    /\ UNCHANGED <<pc, st_entries, pt_entries, use_demand_paging, pm, disk, ffl,
                   vas, results, outs, allocs>>

NextVA == Decompose

SpecVA == InitVA /\ [][NextVA]_vars

\* ------------------------------------------------------------ apply alone
\* Init files whose page-table records name a segment without a page table.
ApplyExtra ==
    { [st |-> << <<1, 600, 3>> >>,  pt |-> << <<0, 3, -9>>, <<1, 0, 10>> >>],
      [st |-> << <<1, 600, -7>> >>, pt |-> << <<0, 3, 5>>, <<1, 0, 10>> >>],
      [st |-> << <<1, 600, 3>> >>,  pt |-> << <<1, 0, 10>>, <<0, 3, -9>> >>],
      [st |-> << <<1, 600, 3>> >>,  pt |-> << <<1, 0, 10>>, <<1, 0, -20>> >>],
      [st |-> << >>,                pt |-> << <<0, 1, 5>>, <<0, 0, 9>> >>],
      [st |-> << <<2, 600, 0>> >>,  pt |-> << <<2, 5, 6>> >>] }

ApplyFiles == BaseFiles \cup ApplyExtra

InitApply == InitWith(ApplyFiles)

NextApply == Apply

SpecApply == InitApply /\ [][NextApply]_vars

\* ------------------------------------------------------------ init data in range
\* Init data whose positive frame values are frames 2..1023 and whose
\* segment sizes are 0..262144.
InRange(file) ==
    /\ \A i \in 1..Len(file.st) :
          /\ file.st[i][2] >= 0 /\ file.st[i][2] <= PT_SIZE * PAGE_SIZE
          /\ file.st[i][3] > 0 => (file.st[i][3] >= ST_FRAMES /\ file.st[i][3] < NUM_FRAMES)
    /\ \A i \in 1..Len(file.pt) :
          file.pt[i][3] > 0 => (file.pt[i][3] >= ST_FRAMES /\ file.pt[i][3] < NUM_FRAMES)

\* Small, large and maximal segment sizes.
RangeExtra ==
    { [st |-> << <<0, 1, -8>>, <<1, 600, 0>> >>,      pt |-> << >>],
      [st |-> << <<0, 2000, -8>>, <<1, 600, 0>> >>,   pt |-> << >>],
      [st |-> << <<0, 262144, 4>>, <<1, 600, -7>> >>,
       pt |-> << <<0, 0, 12>>, <<0, 1, -22>>, <<1, 1, -21>> >>],
      [st |-> << <<0, 600, 1023>>, <<1, 262144, -7>> >>,
       pt |-> << <<0, 0, 2>>, <<1, 1, -21>>, <<1, 0, 1022>> >>] }

RangeFiles == {file \in BaseFiles : InRange(file)} \cup RangeExtra

InitRange == InitWith(RangeFiles)

SpecRange == InitRange /\ [][Next]_vars

\* ------------------------------------------------------------ properties
\* The run was initialised from the given init file.
RunOf(file) == st_entries = file.st /\ pt_entries = file.pt

\* C1. Scenario B: from the Scenario B init file, the batch 2097162, 2097674,
\* 2359306, 2359818 gives 5130, 1034, 6666, 2570; the first address takes no
\* frame and the three faults take frames 2, 4 and 5 in that order: page 1
\* of segment 8 is in frame 2, the page table of segment 9 in frame 4 and
\* page 1 of segment 9 in frame 5.
ScenarioBBatch == <<U32(2097162), U32(2097674), U32(2359306), U32(2359818)>>

C1_ScenarioB ==
    (RunOf(ScenarioB) /\ vas = ScenarioBBatch) =>
        /\ use_demand_paging
        /\ outs = <<5130, 1034, 6666, 2570>>
        /\ allocs = << << >>, <<2>>, <<4>>, <<5>> >>
        /\ get_page_frame(pm, 3, 1) = 2
        /\ get_segment_pt_location(pm, 9) = 4
        /\ get_page_frame(pm, 4, 1) = 5

C1_Witness == RunOf(ScenarioB) /\ vas = ScenarioBBatch /\ pc = "run"

\* C2. Scenario A: from the Scenario A init file (no negative value, so the
\* translator without demand paging is used), 1575424 translates to 4608,
\* 1575863 to 5047 and 1575864 to -1, wherever they stand in the batch.
ScenarioABatch == <<U32(1575424), U32(1575863), U32(1575864)>>

C2_ScenarioA ==
    (RunOf(ScenarioA) /\ pc # "init") =>
        /\ ~use_demand_paging
        /\ get_segment_size(pm, 6) = 3000
        /\ get_segment_pt_location(pm, 6) = 4
        /\ get_page_frame(pm, 4, 5) = 9
        /\ Len(outs) = Len(vas)
        /\ \A i \in 1..Len(vas) :
              /\ vas[i] = U32(1575424) => outs[i] = 4608
              /\ vas[i] = U32(1575863) => outs[i] = 5047
              /\ vas[i] = U32(1575864) => outs[i] = -1

C2_Witness ==
    RunOf(ScenarioA) /\ vas = ScenarioABatch /\ outs = <<4608, 5047, -1>>

\* C3. Idempotent re-translation: in demand-paging mode, when the same raw
\* address is translated twice in a row, the second call returns the same
\* TranslationResult as the first and allocates no frame.
C3_Idempotent ==
    \A i \in 1..(Len(vas) - 1) :
        (use_demand_paging /\ vas[i + 1] = vas[i]) =>
            /\ results[i + 1] = results[i]
            /\ allocs[i + 1] = << >>

\* The words of m that hold residency: the segment-table location word of a
\* segment in 0..511 when positive, and a positive entry of the page table
\* of such a segment (a word of the frame a positive location names).
LocationWords(m) == {a \in DOMAIN m : a < ST_SIZE /\ a % 2 = 1 /\ m[a] > 0}

ResidentPTFrames(m) == {m[a] : a \in LocationWords(m)}

ResidentWords(m) ==
    LocationWords(m)
    \cup {a \in DOMAIN m : m[a] > 0 /\ (a \div PAGE_SIZE) \in ResidentPTFrames(m)}

\* A step that translates one address and returns.
TranslationStep == pc = "run" /\ pc' = "run" /\ Len(vas') = Len(vas) + 1

\* C4. Residency is permanent: a translation changes no positive
\* segment-table location of a segment in 0..511 and no positive entry of a
\* resident page table; and a translation of an address whose segment (in
\* 0..511) has a positive location services no page-table fault, and none at
\* all when its page entry is positive too.
C4_ResidencyPermanent ==
    [][TranslationStep =>
          /\ \A a \in ResidentWords(pm) : Read(pm', a) = pm[a]
          /\ LET va  == from_raw(vas'[Len(vas')])
                 loc == get_segment_pt_location(pm, va.s)
             IN (va.s < MAX_SEGMENTS /\ loc > 0) =>
                   /\ get_segment_pt_location(pm', va.s) = loc
                   /\ Len(allocs'[Len(allocs')]) <= 1
                   /\ (PageWordInPM(loc, va.p) /\ get_page_frame(pm, loc, va.p) > 0) =>
                         allocs'[Len(allocs')] = << >>
    ]_vars

\* A page-table fault and a page fault have both been serviced, and a later
\* translation of the same address found both resident.
C4_Witness ==
    /\ pc = "run"
    /\ Len(vas) >= 2
    /\ vas[2] = vas[1]
    /\ Len(allocs[1]) = 2
    /\ allocs[2] = << >>
    /\ results[2] = results[1]
    /\ results[2].tag = "Success"

\* The frames in a free list, and the frames handed out by the calls so far.
FreeSet(f) == {f[i] : i \in 1..Len(f)}

Allocated(calls) == UNION {FreeSet(calls[i]) : i \in 1..Len(calls)}

\* C5. Lowest-first allocation: on a free list reached from new() by any
\* calls of mark_occupied and allocate, allocate() returns None when no frame
\* is free and otherwise the smallest free frame, removing exactly that
\* frame; so every frame it returns is above all frames returned before,
\* and the frames of 2.. below it that were never returned are frames given
\* to mark_occupied.
C5_LowestFirst ==
    [][(pc = "ffl" /\ allocs' # allocs) =>
          LET got  == allocs'[Len(allocs')]
              free == FreeSet(ffl)
          IN IF free = {}
             THEN got = << >> /\ ffl' = ffl
             ELSE /\ Len(got) = 1
                  /\ got[1] \in free
                  /\ \A g \in free : got[1] <= g
                  /\ FreeSet(ffl') = free \ {got[1]}
                  /\ Len(ffl') = Len(ffl) - 1
                  /\ \A g \in Allocated(allocs) : g < got[1]
                  /\ (ST_FRAMES..(got[1] - 1)) \ Allocated(allocs) \subseteq MarkFrames
    ]_vars

\* allocate() returned 2, then 4 (3 had been marked occupied), and later,
\* on the empty list, None.
C5_Witness ==
    /\ pc = "ffl"
    /\ Len(allocs) > 2
    /\ allocs[1] = <<2>>
    /\ allocs[2] = <<4>>
    /\ allocs[Len(allocs)] = << >>

\* A step in which one address is handed to the translator (it may panic).
TranslationCall == pc = "run" /\ Len(vas') = Len(vas) + 1

LastResult == results'[Len(results')]
LastAllocs == allocs'[Len(allocs')]
CalledVA == from_raw(vas'[Len(vas')])

\* C6. Boundary exactness: in both translators, for an address whose segment
\* has declared size N > 0 and a resident page table, pw = N gives
\* SegmentBoundaryViolation, and pw = N - 1 gives Success when the page is
\* mapped (a positive entry; in demand-paging mode also an entry on disk
\* while a frame is free).
C6_BoundaryExact ==
    [][TranslationStep =>
          LET va  == CalledVA
              N   == get_segment_size(pm, va.s)
              loc == get_segment_pt_location(pm, va.s)
          IN (N > 0 /\ loc > 0 /\ PageWordInPM(loc, va.p)) =>
                LET entry == get_page_frame(pm, loc, va.p)
                    mapped == \/ entry > 0
                              \/ /\ use_demand_paging
                                 /\ entry < 0
                                 /\ ffl # << >>
                IN /\ va.pw = N => LastResult = SegmentBoundaryViolation
                   /\ (va.pw = N - 1 /\ mapped) => LastResult.tag = "Success"
    ]_vars

\* Without demand paging, the last word of a segment of size 600 translated
\* and the word after it was refused.
C6_Witness ==
    /\ ~use_demand_paging
    /\ Len(results) >= 2
    /\ vas[1] = Raw(1, 1, 87)
    /\ results[1] = Success(11 * PAGE_SIZE + 87)
    /\ vas[2] = Raw(1, 1, 88)
    /\ results[2] = SegmentBoundaryViolation

\* C7. No spurious page-table load: in demand-paging mode a translation
\* whose pw is at or above the declared size of an existing segment returns
\* SegmentBoundaryViolation, also when the page table is on disk, allocates
\* no frame and leaves memory, disk and free list as they were.
C7_NoSpuriousLoad ==
    [][(TranslationCall /\ use_demand_paging) =>
          LET va   == CalledVA
              size == get_segment_size(pm, va.s)
              loc  == get_segment_pt_location(pm, va.s)
          IN (~(size = 0 /\ loc = 0) /\ GeAsU32(va.pw, size)) =>
                /\ LastResult = SegmentBoundaryViolation
                /\ LastAllocs = << >>
                /\ pc' = "run"
                /\ pm' = pm
                /\ disk' = disk
                /\ ffl' = ffl
    ]_vars

\* An address past the end of a segment whose page table is still on disk
\* was refused, and the page table is still on disk.
C7_Witness ==
    /\ use_demand_paging
    /\ pc = "run"
    /\ Len(vas) = 1
    /\ vas[1] = Raw(1, 1, 88)
    /\ results[1] = SegmentBoundaryViolation
    /\ get_segment_size(pm, 1) = 600
    /\ get_segment_pt_location(pm, 1) = -7

\* C8. In demand-paging mode an address whose segment has a nonzero declared
\* size, passes the boundary check and has segment-table location 0 yields
\* InvalidSegment.
C8_ZeroLocationInvalid ==
    [][(TranslationCall /\ use_demand_paging) =>
          LET va   == CalledVA
              size == get_segment_size(pm, va.s)
              loc  == get_segment_pt_location(pm, va.s)
          IN (size # 0 /\ ~GeAsU32(va.pw, size) /\ loc = 0) =>
                LastResult = InvalidSegment
    ]_vars

\* C9. Exhaustion is a classified failure: in demand-paging mode, with no
\* frame free, a translation that reaches a page-table fault returns
\* InvalidSegment and one that reaches a page fault returns InvalidPage (also
\* when its own page-table fault took the last free frame); the run goes
\* on, and every address translated so far has produced one output.
C9_ExhaustionClassified ==
    [][(TranslationCall /\ use_demand_paging) =>
          LET va     == CalledVA
              size   == get_segment_size(pm, va.s)
              loc    == get_segment_pt_location(pm, va.s)
              passes == ~(size = 0 /\ loc = 0) /\ ~GeAsU32(va.pw, size)
              ptFault   == passes /\ loc < 0 /\ ffl = << >>
              pageFault == /\ passes /\ loc > 0 /\ ffl = << >>
                           /\ PageWordInPM(loc, va.p)
                           /\ get_page_frame(pm, loc, va.p) < 0
              bothFaults == /\ passes /\ loc < 0 /\ Len(ffl) = 1
                            /\ va.s < MAX_SEGMENTS
                            /\ InDisk(-loc)
                            /\ DiskRead(disk, -loc, va.p) < 0
          IN /\ ptFault => LastResult = InvalidSegment
             /\ pageFault => LastResult = InvalidPage
             /\ bothFaults => LastResult = InvalidPage
             /\ (ptFault \/ pageFault \/ bothFaults) =>
                   /\ pc' = "run"
                   /\ outs' = Append(outs, INVALID_ADDRESS)
                   /\ Len(outs') = Len(vas')
    ]_vars

\* With no frame free, the first address met a page-table fault and got
\* InvalidSegment; two more addresses were translated after it.
C9_Witness ==
    /\ use_demand_paging
    /\ pc = "run"
    /\ ffl = << >>
    /\ Len(vas) = 3
    /\ Len(outs) = 3
    /\ vas[1] = Raw(1, 0, 10)
    /\ results[1] = InvalidSegment
    /\ get_segment_size(pm, 1) = 600
    /\ get_segment_pt_location(pm, 1) = -7

\* The init file keeps to the configured sizes: segments and pages in
\* 0..511, frames in 2..1023, disk blocks in 1..1023.
WithinConfiguredSizes(st, pt) ==
    /\ \A i \in 1..Len(st) :
          /\ st[i][1] \in 0..(MAX_SEGMENTS - 1)
          /\ st[i][3] > 0 => st[i][3] \in ST_FRAMES..(NUM_FRAMES - 1)
          /\ st[i][3] < 0 => -st[i][3] \in 1..(DISK_BLOCKS - 1)
    /\ \A i \in 1..Len(pt) :
          /\ pt[i][1] \in 0..(MAX_SEGMENTS - 1)
          /\ pt[i][2] \in 0..(PT_SIZE - 1)
          /\ pt[i][3] > 0 => pt[i][3] \in ST_FRAMES..(NUM_FRAMES - 1)
          /\ pt[i][3] < 0 => -pt[i][3] \in 1..(DISK_BLOCKS - 1)

\* C10. No abort on any address: for an init file within the configured
\* sizes, no translation panics (no index outside physical memory or the
\* disk, no arithmetic overflow), and each returns exactly one of Success,
\* SegmentBoundaryViolation, InvalidSegment, InvalidPage.
C10_NoAbort ==
    WithinConfiguredSizes(st_entries, pt_entries) =>
        /\ pc # "aborted"
        /\ \A i \in 1..Len(results) :
              results[i].tag \in {"Success", "SegmentBoundaryViolation",
                                  "InvalidSegment", "InvalidPage"}

\* The result of handing raw to the translator of the run's mode in the
\* current state.
TranslatorOutcome(raw, checks) ==
    IF use_demand_paging
    THEN translate_with_demand_paging(from_raw(raw), pm, disk, ffl, checks)
    ELSE translate(from_raw(raw), pm, ffl, checks)

\* raw & 0x7FFFFFF.
Low27(raw) == AndMask(raw, S_BITS + P_BITS + W_BITS)

HighBitAddrs == Addrs \cup {Low27(raw) : raw \in Addrs}

\* C11. High bits are ignored: from any state of a run, two raw addresses
\* that agree on their low 27 bits get the same outcome from the translator
\* (same TranslationResult, same memory and free list afterwards), and the
\* segment index of every address is in 0..511.
C11_HighBitsIgnored ==
    pc = "run" =>
        \A r1 \in HighBitAddrs :
            /\ from_raw(r1).s \in 0..(MAX_SEGMENTS - 1)
            /\ \A r2 \in HighBitAddrs : \A checks \in BOOLEAN :
                  Low27(r1) = Low27(r2) =>
                      TranslatorOutcome(r1, checks) = TranslatorOutcome(r2, checks)

\* (va.s << 18) | (va.p << 9) | va.w, in u32 arithmetic.
Reconstruct(va) ==
    OrU32(OrU32(Shl(U32(va.s), S_SHIFT), Shl(U32(va.p), P_SHIFT)), U32(va.w))

\* C12. Decomposition round trip: for every raw u32, the fields s, p, w of
\* from_raw(raw) give (s << 18) | (p << 9) | w = raw & 0x7FFFFFF.
C12_RoundTrip ==
    decoded # << >> => Reconstruct(decoded[1]) = Low27(vas[1])

\* C13. For every raw u32, from_raw yields p and w in 0..511 and
\* pw = p * 512 + w = raw & 0x3FFFF (the low 2 bits of the high limb
\* followed by the low limb).
C13_FieldRanges ==
    decoded # << >> =>
        LET va == decoded[1]
        IN /\ va.p \in 0..511
           /\ va.w \in 0..511
           /\ va.pw = va.p * 512 + va.w
           /\ va.pw = (vas[1].hi % 4) * 65536 + vas[1].lo

\* 0xFFFFFFFF was decomposed: p = w = 511 and pw = 262143.
C13_Witness ==
    /\ decoded # << >>
    /\ vas[1] = U32_MAX
    /\ decoded[1].p = 511
    /\ decoded[1].w = 511
    /\ decoded[1].pw = 262143

\* C14. Free-list invariant: in every state of a demand-paging run from an
\* init file within the configured sizes, after initialisation and after
\* every translation, no frame number is in the free list twice, and no
\* frame in the free list is the positive location of a segment in 0..511 or
\* a positive entry of a resident page table.
C14_FreeListInvariant ==
    (pc = "run" /\ use_demand_paging /\ WithinConfiguredSizes(st_entries, pt_entries)) =>
        /\ Cardinality(FreeSet(ffl)) = Len(ffl)
        /\ \A a \in ResidentWords(pm) : pm[a] \notin FreeSet(ffl)

\* Frames 4 and 12 were named by the init file; a translation took frame 2
\* for a page table and frame 3 for a page, and frame 5 is the next free one.
C14_Witness ==
    /\ pc = "run"
    /\ st_entries = << <<0, 600, 4>>, <<1, 600, -7>> >>
    /\ pt_entries = << <<0, 0, 12>>, <<0, 1, -22>>, <<1, 1, -21>> >>
    /\ Len(allocs) >= 1
    /\ allocs[1] = <<2, 3>>
    /\ get_segment_pt_location(pm, 1) = 2
    /\ get_page_frame(pm, 2, 1) = 3
    /\ ffl # << >>
    /\ ffl[Len(ffl)] = 5
    /\ ~is_free(ffl, 12)

\* C15. Frames 0 and 1 are never free and never allocated: in every state
\* is_free(0) and is_free(1) are false and no allocate() has returned 0 or 1;
\* and a translation changes a word of the segment table (words 0..1023)
\* only by binding a frame it allocated: the word is the location word of
\* the address's segment, or the entry of its page when the page table is
\* taken to be in frame 0 or 1, and its new value is that frame; no disk
\* block is loaded there.
C15_ReservedFrames ==
    /\ [](/\ ~is_free(ffl, 0)
          /\ ~is_free(ffl, 1)
          /\ Allocated(allocs) \cap {0, 1} = {})
    /\ [][TranslationStep =>
             LET va  == CalledVA
                 loc == get_segment_pt_location(pm, va.s)
             IN \A a \in {x \in DOMAIN pm \cup DOMAIN pm' : x < ST_SIZE} :
                   Read(pm', a) # Read(pm, a) =>
                      /\ Read(pm', a) \in FreeSet(LastAllocs)
                      /\ \/ a = 2 * va.s + 1
                         \/ loc \in {0, 1} /\ a = loc * PAGE_SIZE + va.p
       ]_vars

\* The init file named frame 1 as the page table of segment 0
\* (mark_occupied(1) was called) with page 1 on disk; a translation took
\* the first free frames, 2 and 3, for the page table and a page of segment
\* 1, and the next one bound frame 4 in word 513, inside the segment table.
C15_Witness ==
    /\ pc = "run"
    /\ st_entries = << <<0, 600, 1>>, <<1, 600, -9>> >>
    /\ Len(allocs) = 2
    /\ allocs[1] = <<2, 3>>
    /\ get_segment_pt_location(pm, 1) = 2
    /\ allocs[2] = <<4>>
    /\ vas[2] = Raw(0, 1, 87)
    /\ Read(pm, PAGE_SIZE + 1) = 4

\* The third components of the records of an init file, in file order.
FrameMentions(st, pt) ==
    [i \in 1..(Len(st) + Len(pt)) |->
        IF i <= Len(st) THEN st[i][3] ELSE pt[i - Len(st)][3]]

\* Well-formed init data: within the configured sizes, and each positive
\* frame value mentioned once.
EachFrameOnce(st, pt) ==
    LET m == FrameMentions(st, pt)
    IN \A i, j \in DOMAIN m : (m[i] > 0 /\ m[i] = m[j]) => i = j

WellFormedFrames(st, pt) == WithinConfiguredSizes(st, pt) /\ EachFrameOnce(st, pt)

\* The positive entries of the resident page tables of segments 0..511.
EntryWords(m) ==
    {a \in DOMAIN m : m[a] > 0 /\ (a \div PAGE_SIZE) \in ResidentPTFrames(m)}

\* No frame is referenced by two bindings: not by two segments as their
\* page table, not by two page-table entries, not by a segment as its page
\* table and by an entry as a page.
ExclusiveRoles(m) ==
    /\ \A a, b \in LocationWords(m) : m[a] = m[b] => a = b
    /\ \A a, b \in EntryWords(m) : m[a] = m[b] => a = b
    /\ \A a \in LocationWords(m) : \A b \in EntryWords(m) : m[a] # m[b]

\* C16 as stated. Exclusive frame role: in every state of a demand-paging
\* run from well-formed init data (each positive frame value mentioned once,
\* in 2..1023), no frame is the page-table location of two segments, or the
\* frame of two page-table entries, or both a page-table location and a
\* page frame.
C16_ExclusiveRole ==
    (pc = "run" /\ use_demand_paging /\ WellFormedFrames(st_entries, pt_entries)) =>
        ExclusiveRoles(pm)

\* After initialisation no two segments of 0..511 have their page tables
\* on the same disk block.
DistinctPTBlocks(st, pt) ==
    LET m == apply(st, pt, NewPM, NewDisk).pm
        onDisk == {a \in DOMAIN m : a < ST_SIZE /\ a % 2 = 1 /\ m[a] < 0}
    IN \A a, b \in onDisk : m[a] = m[b] => a = b

\* C16 amended. As C16, for well-formed init data that in addition leaves no
\* two segments with their page tables on the same disk block.
C16_ExclusiveRoleDistinctBlocks ==
    (/\ pc = "run"
     /\ use_demand_paging
     /\ WellFormedFrames(st_entries, pt_entries)
     /\ DistinctPTBlocks(st_entries, pt_entries)) =>
        ExclusiveRoles(pm)

\* Five bindings to five frames: the page tables of segments 0 and 1 in
\* frames 4 (from the init file) and 2 (loaded), pages in frames 12 (from
\* the init file), 3 and 5 (loaded).
C16_Witness ==
    /\ pc = "run"
    /\ WellFormedFrames(st_entries, pt_entries)
    /\ DistinctPTBlocks(st_entries, pt_entries)
    /\ vas = <<Raw(1, 1, 87), Raw(0, 1, 87)>>
    /\ allocs = << <<2, 3>>, <<5>> >>
    /\ {pm[a] : a \in LocationWords(pm)} = {2, 4}
    /\ {pm[a] : a \in EntryWords(pm)} = {3, 5, 12}

\* C17. The translator without demand paging never services faults: for an
\* existing segment that passes the boundary check it returns InvalidSegment
\* when the page-table location is zero or negative and InvalidPage when the
\* page-table entry is zero or negative; and every call leaves physical
\* memory, disk and free list unchanged and allocates no frame.
C17_BasicNeverFaults ==
    [][(TranslationCall /\ ~use_demand_paging) =>
          LET va     == CalledVA
              size   == get_segment_size(pm, va.s)
              loc    == get_segment_pt_location(pm, va.s)
              passes == ~(size = 0 /\ loc = 0) /\ ~GeAsU32(va.pw, size)
          IN /\ (passes /\ loc <= 0) => LastResult = InvalidSegment
             /\ (passes /\ loc > 0 /\ PageWordInPM(loc, va.p)
                        /\ get_page_frame(pm, loc, va.p) <= 0) =>
                   LastResult = InvalidPage
             /\ LastAllocs = << >>
             /\ pm' = pm
             /\ disk' = disk
             /\ ffl' = ffl
    ]_vars

\* Called on a memory with a page table on disk and a page on disk, the
\* translator without demand paging returned InvalidSegment for the first
\* and InvalidPage for the second, and the entries are still on disk.
C17_Witness ==
    /\ pc = "run"
    /\ ~use_demand_paging
    /\ vas = <<Raw(1, 0, 10), Raw(0, 1, 87)>>
    /\ results = <<InvalidSegment, InvalidPage>>
    /\ get_segment_pt_location(pm, 1) = -7
    /\ get_segment_pt_location(pm, 0) = 4
    /\ get_page_frame(pm, 4, 1) = -22

\* C18. Nonexistent segment: in both translators an address whose
\* segment-table entry has size 0 and location 0 yields InvalidSegment, and
\* the call allocates no frame and changes no word of memory (nor the free
\* list).
C18_NonexistentSegment ==
    [][TranslationCall =>
          LET va == CalledVA
          IN (get_segment_size(pm, va.s) = 0 /\ get_segment_pt_location(pm, va.s) = 0) =>
                /\ LastResult = InvalidSegment
                /\ LastAllocs = << >>
                /\ pc' = "run"
                /\ pm' = pm
                /\ ffl' = ffl
    ]_vars

\* In demand-paging mode, with frames free and segment 1 on disk, an
\* address of segment 0, which has no entry, got InvalidSegment.
C18_Witness ==
    /\ pc = "run"
    /\ use_demand_paging
    /\ st_entries = << <<1, 600, -7>> >>
    /\ pt_entries = << <<1, 0, -20>>, <<1, 1, -21>> >>
    /\ vas = <<Raw(0, 0, 10)>>
    /\ results = <<InvalidSegment>>
    /\ allocs = << << >> >>
    /\ Len(ffl) = NUM_FRAMES - ST_FRAMES

\* C19. Batch contract: a batch that returns has one integer per address
\* translated, in input order (none for an empty batch); each translation
\* appends one integer and keeps the earlier ones; the integer is the
\* outcome of translating that address in the state the earlier
\* translations left, encoded as the physical address for Success and as -1
\* for SegmentBoundaryViolation, InvalidSegment and InvalidPage.
C19_BatchContract ==
    /\ [](pc = "run" =>
             /\ Len(outs) = Len(vas)
             /\ Len(results) = Len(vas)
             /\ \A i \in 1..Len(vas) :
                   /\ results[i].tag = "Success" => outs[i] = results[i].pa
                   /\ results[i].tag \in {"SegmentBoundaryViolation", "InvalidSegment",
                                          "InvalidPage"} => outs[i] = -1
                   /\ results[i].tag \in {"Success", "SegmentBoundaryViolation",
                                          "InvalidSegment", "InvalidPage"})
    /\ [][TranslationStep =>
             /\ SubSeq(vas', 1, Len(vas)) = vas
             /\ SubSeq(outs', 1, Len(outs)) = outs
             /\ Len(outs') = Len(outs) + 1
             /\ \E checks \in BOOLEAN :
                   LastResult = TranslatorOutcome(vas'[Len(vas')], checks).result
       ]_vars

\* A batch of two: the first address got InvalidPage (-1), the second a
\* physical address.
C19_Witness ==
    /\ pc = "run"
    /\ vas = <<Raw(1, 0, 10), Raw(1, 1, 87)>>
    /\ results = <<InvalidPage, Success(11 * PAGE_SIZE + 87)>>
    /\ outs = <<-1, 11 * PAGE_SIZE + 87>>

\* C20. Init seeds the free list: after InitData::apply a frame is free
\* exactly when it is in 2..1023 and is not the positive third component of a
\* segment-table or page-table record (each such frame is in the list once);
\* zero and negative third components remove nothing.
C20_InitSeedsFreeList ==
    (pc = "run" /\ vas = << >>) =>
        /\ FreeSet(ffl) = (ST_FRAMES..(NUM_FRAMES - 1))
                             \ MentionedFrames([st |-> st_entries, pt |-> pt_entries])
        /\ Len(ffl) = Cardinality(FreeSet(ffl))

\* After an init file naming frames 4 and 12 and disk blocks 7, 21 and 22:
\* 4 and 12 are occupied, 7, 21 and 22 are free, 1020 frames are free.
C20_Witness ==
    /\ pc = "run"
    /\ vas = << >>
    /\ st_entries = << <<0, 600, 4>>, <<1, 600, -7>> >>
    /\ pt_entries = << <<0, 0, 12>>, <<0, 1, -22>>, <<1, 1, -21>> >>
    /\ ~is_free(ffl, 4)
    /\ ~is_free(ffl, 12)
    /\ is_free(ffl, 7)
    /\ is_free(ffl, 21)
    /\ is_free(ffl, 22)
    /\ free_count(ffl) = 1020

\* Some init record has a negative third component.
HasNegativeRecord ==
    \E i \in DOMAIN FrameMentions(st_entries, pt_entries) :
        FrameMentions(st_entries, pt_entries)[i] < 0

\* C21. Mode selection is per run: the mode of the run is demand paging
\* exactly when some segment-table or page-table init record has a negative
\* third component; it never changes; and every address of the batch is
\* translated by the translator of that mode (the demand-paging one, which
\* services faults, or the other, which changes nothing), also after all
\* the faults have been serviced.
C21_ModePerRun ==
    /\ [](use_demand_paging = HasNegativeRecord)
    /\ [][/\ use_demand_paging' = use_demand_paging
          /\ TranslationStep =>
                \E checks \in BOOLEAN :
                    LET o == IF HasNegativeRecord
                             THEN translate_with_demand_paging(CalledVA, pm, disk, ffl, checks)
                             ELSE translate(CalledVA, pm, ffl, checks)
                    IN /\ o.abort = ""
                       /\ LastResult = o.result
                       /\ LastAllocs = o.allocs
                       /\ pm' = o.pm
                       /\ ffl' = o.ffl
       ]_vars

\* The only negative value of the init file was a page-table record; the
\* first translation serviced that page fault, the second found the page
\* resident, and the run is still in demand-paging mode.
C21_Witness ==
    /\ pc = "run"
    /\ use_demand_paging
    /\ st_entries = << <<1, 600, 3>> >>
    /\ pt_entries = << <<1, 0, 10>>, <<1, 1, -20>> >>
    /\ vas = <<Raw(1, 1, 87), Raw(1, 1, 87)>>
    /\ allocs = << <<2>>, << >> >>
    /\ \A a \in DOMAIN pm : pm[a] > 0

\* The frames tried on a free list: those of MarkFrames, the frame returned
\* by the first allocate() and the one returned by the last.
TriedFrames ==
    MarkFrames
    \cup (IF allocs = << >> THEN {} ELSE FreeSet(allocs[1]) \cup FreeSet(allocs[Len(allocs)]))

\* C22. mark_occupied is idempotent and total: on every free list reached
\* from new() by calls of mark_occupied and allocate, mark_occupied(frame)
\* gives the list without that frame and with the other frames in their
\* order (so free_count drops by one when the frame was free and is
\* unchanged otherwise); a second call changes nothing; and on frame 0 or 1,
\* on a frame marked before and on a frame already allocated it changes
\* nothing.
C22_MarkOccupiedIdempotent ==
    pc = "ffl" =>
        \A frame \in TriedFrames :
            LET g == mark_occupied(ffl, frame)
            IN /\ g = SelectSeq(ffl, LAMBDA x : x # frame)
               /\ free_count(g) = free_count(ffl) - (IF is_free(ffl, frame) THEN 1 ELSE 0)
               /\ mark_occupied(g, frame) = g
               /\ (frame \in {0, 1} \cup Allocated(allocs)) => g = ffl
               /\ ~is_free(ffl, frame) => g = ffl

\* Frame 3 has been marked occupied, frame 2 has been allocated, and frame
\* 1023 is still free: marking 3 again, 2, 0 or 1 finds nothing to remove,
\* marking 1023 removes the bottom of the stack.
C22_Witness ==
    /\ pc = "ffl"
    /\ allocs # << >>
    /\ allocs[1] = <<2>>
    /\ ~is_free(ffl, 3)
    /\ is_free(ffl, 4)
    /\ is_free(ffl, 1023)
    /\ free_count(ffl) = 1020

\* The address handed to the translator names an existing segment and
\* passes the boundary check, in the state before the call.
PassesBoundary ==
    LET size == get_segment_size(pm, CalledVA.s)
        loc  == get_segment_pt_location(pm, CalledVA.s)
    IN ~(size = 0 /\ loc = 0) /\ ~GeAsU32(CalledVA.pw, size)

\* g is the lowest frame of the free list f, and the lowest but `below`.
LowestIn(g, f) == g \in FreeSet(f) /\ \A y \in FreeSet(f) : g <= y

NextLowestIn(g, f, below) ==
    g \in FreeSet(f) \ {below} /\ \A y \in FreeSet(f) \ {below} : g <= y

\* C23. Page-table fault servicing: in demand-paging mode, when the address
\* passes the boundary check, the location of its segment is -b for a disk
\* block b and a frame is free, the translation takes the lowest free frame
\* f, leaves frame f holding the words of block b (but for entry p when the
\* page lookup that follows binds a frame there), leaves the segment-table
\* entry at (same size, f), and resolves the page from entry p of frame f:
\* InvalidPage for 0, Success(e * 512 + w) for e > 0, a page fault for e < 0.
C23_PTFaultServicing ==
    [][(TranslationStep /\ use_demand_paging) =>
          LET va   == CalledVA
              size == get_segment_size(pm, va.s)
              b    == -get_segment_pt_location(pm, va.s)
          IN (PassesBoundary /\ b > 0 /\ InDisk(b) /\ ffl # << >>) =>
                /\ LastAllocs # << >>
                /\ LowestIn(LastAllocs[1], ffl)
                /\ LastAllocs[1] \notin FreeSet(ffl')
                /\ get_segment_size(pm', va.s) = size
                /\ get_segment_pt_location(pm', va.s) = LastAllocs[1]
                /\ LET f == LastAllocs[1]
                       e == DiskRead(disk, b, va.p)
                   IN /\ \A i \in 0..(BLOCK_SIZE - 1) :
                            i # va.p => Read(pm', f * PAGE_SIZE + i) = DiskRead(disk, b, i)
                      /\ e >= 0 => Read(pm', f * PAGE_SIZE + va.p) = e
                      /\ e = 0 => LastResult = InvalidPage
                      /\ (e > 0 /\ ~PaOverflows(e, va.w)) =>
                            LastResult = Success(e * PAGE_SIZE + va.w)
                      /\ e < 0 =>
                            /\ LastResult.tag \in {"Success", "InvalidPage"}
                            /\ Len(LastAllocs) = 2 =>
                                  Read(pm', f * PAGE_SIZE + va.p) = LastAllocs[2]
    ]_vars

\* The page table of segment 1 was on block 7, which holds -21 for page 1
\* and nothing for page 0: the translation of (1, 0, 10) loaded it into
\* frame 2 and found no page (frames 4 and 12 are in use).
C23_Witness ==
    /\ pc = "run"
    /\ st_entries = << <<0, 600, 4>>, <<1, 600, -7>> >>
    /\ pt_entries = << <<0, 0, 12>>, <<0, 1, -22>>, <<1, 1, -21>> >>
    /\ vas = <<Raw(1, 0, 10)>>
    /\ allocs = << <<2>> >>
    /\ results = <<InvalidPage>>
    /\ get_segment_size(pm, 1) = 600
    /\ get_segment_pt_location(pm, 1) = 2
    /\ get_page_frame(pm, 2, 1) = -21

C25_SuccessFormula ==
    [][TranslationStep =>
          (LastResult.tag = "Success" =>
              LET va == CalledVA
                  t  == get_segment_pt_location(pm', va.s)
              IN /\ t > 0
                 /\ PageWordInPM(t, va.p)
                 /\ get_page_frame(pm', t, va.p) > 0
                 /\ LastResult.pa = get_page_frame(pm', t, va.p) * PAGE_SIZE + va.w)
    ]_vars

\* Segment 1 is declared with size 600 and no page table; the translation
\* of (1, 0, 10) returned Success(600 * 512 + 10), reading the size word of
\* segment 0 as the frame of the page, and the location of segment 1 is 0.
C25_ZeroLocationSuccess ==
    /\ pc = "run"
    /\ st_entries = << <<0, 600, -8>>, <<1, 600, 0>> >>
    /\ pt_entries = << >>
    /\ vas = <<Raw(1, 0, 10)>>
    /\ results = <<Success(307210)>>
    /\ get_segment_pt_location(pm, 1) = 0

\* C26. Missing page: in both translators an address that passes the
\* boundary check, whose page table is resident and whose page-table entry
\* is 0 yields InvalidPage and changes nothing; in demand-paging mode, when
\* the page table is loaded by the same translation and its entry is 0, the
\* result is InvalidPage, the only frame taken is the page table's, and the
\* segment-table entry keeps that frame.
C26_MissingPage ==
    [][TranslationStep =>
          LET va   == CalledVA
              size == get_segment_size(pm, va.s)
              loc  == get_segment_pt_location(pm, va.s)
          IN /\ (PassesBoundary /\ loc > 0 /\ PageWordInPM(loc, va.p)
                   /\ get_page_frame(pm, loc, va.p) = 0) =>
                   /\ LastResult = InvalidPage
                   /\ LastAllocs = << >>
                   /\ pm' = pm /\ ffl' = ffl /\ disk' = disk
             /\ (use_demand_paging /\ PassesBoundary /\ loc < 0 /\ InDisk(-loc)
                   /\ ffl # << >> /\ DiskRead(disk, -loc, va.p) = 0) =>
                   /\ LastResult = InvalidPage
                   /\ Len(LastAllocs) = 1
                   /\ Len(ffl') = Len(ffl) - 1
                   /\ get_segment_size(pm', va.s) = size
                   /\ get_segment_pt_location(pm', va.s) = LastAllocs[1]
                   /\ get_page_frame(pm', LastAllocs[1], va.p) = 0
    ]_vars

\* Both cases in one run: (1, 0, 10) loaded the page table of segment 1 from
\* block 7 into frame 2 and found entry 0; (1, 0, 10) again found the
\* resident table's entry 0 and took no frame.
C26_Witness ==
    /\ pc = "run"
    /\ st_entries = << <<1, 600, -7>> >>
    /\ pt_entries = << <<1, 1, 11>> >>
    /\ vas = <<Raw(1, 0, 10), Raw(1, 0, 10)>>
    /\ results = <<InvalidPage, InvalidPage>>
    /\ allocs = << <<2>>, << >> >>
    /\ get_segment_pt_location(pm, 1) = 2
    /\ free_count(ffl) = 1020

\* C27. Double fault ordering: when one demand-paging translation hits a
\* page-table fault and then a page fault (two frames free, both blocks on
\* the disk), the page table gets the lowest free frame, the page the next
\* lowest, exactly two frames are taken and the result is
\* Success(second * 512 + w). From the Scenario B initial state, address
\* 2359818 alone takes frames 2 and 4 and yields 2058.
C27_DoubleFault ==
    /\ []((RunOf(ScenarioB) /\ pc = "run" /\ Len(vas) >= 1 /\ vas[1] = U32(2359818)) =>
             (allocs[1] = <<2, 4>> /\ outs[1] = 2058))
    /\ [][(TranslationStep /\ use_demand_paging) =>
             LET va == CalledVA
                 b  == -get_segment_pt_location(pm, va.s)
             IN (PassesBoundary /\ b > 0 /\ InDisk(b) /\ Len(ffl) >= 2) =>
                   LET b2 == -DiskRead(disk, b, va.p)
                   IN (b2 > 0 /\ InDisk(b2)) =>
                         /\ Len(LastAllocs) = 2
                         /\ LowestIn(LastAllocs[1], ffl)
                         /\ NextLowestIn(LastAllocs[2], ffl, LastAllocs[1])
                         /\ LastAllocs[1] < LastAllocs[2]
                         /\ Len(ffl') = Len(ffl) - 2
                         /\ FreeSet(ffl') = FreeSet(ffl) \ {LastAllocs[1], LastAllocs[2]}
                         /\ get_segment_pt_location(pm', va.s) = LastAllocs[1]
                         /\ get_page_frame(pm', LastAllocs[1], va.p) = LastAllocs[2]
                         /\ LastResult = Success(LastAllocs[2] * PAGE_SIZE + va.w)
       ]_vars

C27_Witness ==
    /\ RunOf(ScenarioB)
    /\ pc = "run"
    /\ vas = <<U32(2359818)>>
    /\ allocs = << <<2, 4>> >>
    /\ results = <<Success(2058)>>
    /\ outs = <<2058>>

\* Frames that hold the page table of a segment 0..511 in memory m.
PTFrames(m) ==
    {m[a] : a \in {x \in DOMAIN m : x < ST_SIZE /\ x % 2 = 1 /\ m[x] > 0}}

\* C28. Segments are independent: a demand-paging translation of an address
\* in segment s (0..511) leaves the segment-table words of every other
\* segment unchanged, leaves the size word of s unchanged, and leaves every
\* word of every resident page table unchanged but entry p of the page
\* table of s.
C28_SegmentsIndependent ==
    [][(TranslationStep /\ use_demand_paging /\ CalledVA.s < MAX_SEGMENTS) =>
          LET va == CalledVA
              t  == get_segment_pt_location(pm', va.s)
          IN /\ \A a \in {x \in DOMAIN pm \cup DOMAIN pm' : x < ST_SIZE} :
                    a # 2 * va.s + 1 => Read(pm', a) = Read(pm, a)
             /\ \A a \in DOMAIN pm \cup DOMAIN pm' :
                    (a \div PAGE_SIZE \in PTFrames(pm) /\ a # t * PAGE_SIZE + va.p) =>
                        Read(pm', a) = Read(pm, a)
    ]_vars

\* Segment 0 has its page table on block 8 and segment 1 is declared with
\* no page table; the translation of (1, 1, 87) took frame 2 for a page and
\* wrote it over the location word of segment 0.
C28_OtherSegmentChanged ==
    /\ pc = "run"
    /\ st_entries = << <<0, 600, -8>>, <<1, 600, 0>> >>
    /\ pt_entries = << >>
    /\ vas = <<Raw(1, 1, 87)>>
    /\ allocs = << <<2>> >>
    /\ get_segment_pt_location(pm, 0) = 2

\* The location of segment s after the segment-table records alone: the
\* last record given for s, 0 if there is none.
LocationAfterST(s) ==
    LET given == {i \in 1..Len(st_entries) : st_entries[i][1] = s}
    IN IF given = {} THEN 0
       ELSE st_entries[CHOOSE i \in given : \A j \in given : j <= i][3]

\* Where the page-table record i belongs by the segment table: a memory
\* word, a disk word, or nowhere stated (location 0).
Routed(i) ==
    LET loc == LocationAfterST(pt_entries[i][1])
    IN IF loc > 0 THEN <<"pm", loc * PAGE_SIZE + pt_entries[i][2]>>
       ELSE IF loc < 0 THEN <<"disk", -loc, pt_entries[i][2]>>
       ELSE <<"none", pt_entries[i][2]>>

C29_RecordMisrouted ==
    /\ pc = "run"
    /\ st_entries = << <<1, 600, 3>> >>
    /\ pt_entries = << <<0, 3, -9>>, <<1, 0, 10>> >>
    /\ Read(pm, 3 * PAGE_SIZE) = 0
    /\ DiskRead(disk, 9, 0) = 10
    /\ get_segment_pt_location(pm, 1) = -9

\* Blocks and frames to load: every block and frame that holds a word, and
\* an empty block and the first free frame.
LoadBlocks == DOMAIN disk \cup {20}

LoadFrames == {x \div PAGE_SIZE : x \in DOMAIN pm} \cup {2}

\* Memory m2 is memory m with frame f replaced by the words of block b
\* (compared on every word that is not 0 in all of m, m2 and the block).
FrameLoaded(m2, m, b, f) ==
    \A x \in DOMAIN m \cup DOMAIN m2
               \cup {f * PAGE_SIZE + i : i \in DOMAIN Block(disk, b)} :
        IF x \div PAGE_SIZE = f
        THEN Read(m2, x) = DiskRead(disk, b, x - f * PAGE_SIZE)
        ELSE Read(m2, x) = Read(m, x)

NegativeSizeSegments(m) ==
    {x \div 2 : x \in {y \in DOMAIN m : y < ST_SIZE /\ y % 2 = 0 /\ m[y] < 0}}

\* Page numbers and offsets reaching the ends of the range of pw.
BoundaryPW == {<<0, 0>>, <<0, 10>>, <<1, 87>>, <<PT_SIZE - 1, PAGE_SIZE - 1>>}

ZeroLengthSegments(m) ==
    {x \div 2 : x \in {y \in DOMAIN m : y < ST_SIZE /\ y % 2 = 1 /\ m[y] # 0
                                         /\ Read(m, y - 1) = 0}}

NoDiskReference(m) ==
    \A x \in DOMAIN m :
        /\ (x < ST_SIZE /\ x % 2 = 1) => m[x] >= 0
        /\ x \div PAGE_SIZE \in PTFrames(m) => m[x] >= 0

\* Addresses of segments 0..511.
SegmentAddrs == {raw \in Addrs : from_raw(raw).s < MAX_SEGMENTS}

\* C33. Mode equivalence without disk references: in every memory state of
\* a run in which no segment-table location and no page-table entry is
\* negative, translate_with_demand_paging returns the same result as
\* translate for every address of a segment 0..511, takes no frame and
\* changes no memory word.
C33_ModeEquivalence ==
    (pc = "run" /\ NoDiskReference(pm)) =>
        \A raw \in SegmentAddrs : \A checks \in BOOLEAN :
            LET b == translate(from_raw(raw), pm, ffl, checks)
                d == translate_with_demand_paging(from_raw(raw), pm, disk, ffl, checks)
            IN /\ d.result = b.result
               /\ d.abort = b.abort
               /\ d.allocs = << >>
               /\ d.pm = pm
               /\ d.ffl = ffl

\* After (0, 0, 10) loaded the page table of segment 0 no word of the
\* tables is negative; segment 1 has size 600 and location 0, and the
\* demand-paging translation of (1, 0, 10) returned Success(600 * 512 + 10)
\* where translate returns InvalidSegment.
C33_ModesDiffer ==
    /\ pc = "run"
    /\ st_entries = << <<0, 600, -8>>, <<1, 600, 0>> >>
    /\ pt_entries = << >>
    /\ vas = <<Raw(0, 0, 10), Raw(1, 0, 10)>>
    /\ results = <<InvalidPage, Success(307210)>>
    /\ NoDiskReference(pm)
    /\ translate(from_raw(Raw(1, 0, 10)), pm, ffl, TRUE).result = InvalidSegment

\* C34. Physical addresses stay in range: in every run from init data
\* whose positive frame values are in 2..1023 and whose segment sizes are
\* in 0..262144, every Success(pa) returned by either translator has
\* 1024 <= pa < 524288.
C34_AddressInRange ==
    [][(TranslationStep /\ InRange([st |-> st_entries, pt |-> pt_entries])
                        /\ LastResult.tag = "Success") =>
          (LastResult.pa >= ST_FRAMES * PAGE_SIZE /\ LastResult.pa < PM_SIZE)
    ]_vars

\* Segment 0 has size 2000 and segment 1 size 600 with no page table: the
\* translation of (1, 0, 10) returned 2000 * 512 + 10, beyond the end of
\* physical memory.
C34_AddressBeyondMemory ==
    /\ pc = "run"
    /\ st_entries = << <<0, 2000, -8>>, <<1, 600, 0>> >>
    /\ pt_entries = << >>
    /\ vas = <<Raw(1, 0, 10)>>
    /\ results = <<Success(1024010)>>
    /\ outs = <<1024010>>

\* The faults the translation about to be made services, counted from the
\* state before it: a page-table fault when the address passes the boundary
\* check, the location is negative and a frame is free; a page fault when
\* the entry of the page in the page table (on disk if just faulted) is
\* negative and a frame is still free.
PTFaultServiced ==
    PassesBoundary /\ get_segment_pt_location(pm, CalledVA.s) < 0 /\ ffl # << >>

PageFaultServiced ==
    LET va  == CalledVA
        loc == get_segment_pt_location(pm, va.s)
    IN /\ PassesBoundary
       /\ IF loc < 0
          THEN /\ Len(ffl) >= 2
               /\ DiskRead(disk, -loc, va.p) < 0
          ELSE /\ ffl # << >>
               /\ get_page_frame(pm, loc, va.p) < 0

FaultsServiced ==
    (IF PTFaultServiced THEN 1 ELSE 0) + (IF PageFaultServiced THEN 1 ELSE 0)

\* C35. Allocation accounting: each demand-paging translation takes as
\* many frames off the free list as it services faults (0, 1 or 2), pops
\* them from the end of the list and never adds one; a Success with page
\* table and page resident, an InvalidSegment for a nonexistent segment and
\* a SegmentBoundaryViolation leave the free list identical.
C35_AllocationAccounting ==
    [][(TranslationStep /\ use_demand_paging) =>
          LET va   == CalledVA
              size == get_segment_size(pm, va.s)
              loc  == get_segment_pt_location(pm, va.s)
          IN /\ free_count(ffl') = free_count(ffl) - FaultsServiced
             /\ Len(LastAllocs) = FaultsServiced
             /\ ffl' = SubSeq(ffl, 1, Len(ffl) - FaultsServiced)
             /\ Len(ffl') <= Len(ffl)
             /\ (LastResult.tag = "Success" /\ loc > 0
                   /\ get_page_frame(pm, loc, va.p) > 0) => ffl' = ffl
             /\ (LastResult = InvalidSegment /\ size = 0 /\ loc = 0) => ffl' = ffl
             /\ LastResult = SegmentBoundaryViolation => ffl' = ffl
    ]_vars

\* (1, 1, 87) serviced two faults and took frames 2 and 3; the same address
\* again found both resident and took none.
C35_Witness ==
    /\ pc = "run"
    /\ st_entries = << <<1, 600, -7>> >>
    /\ pt_entries = << <<1, 0, -20>>, <<1, 1, -21>> >>
    /\ vas = <<Raw(1, 1, 87), Raw(1, 1, 87)>>
    /\ allocs = << <<2, 3>>, << >> >>
    /\ results = <<Success(3 * PAGE_SIZE + 87), Success(3 * PAGE_SIZE + 87)>>
    /\ free_count(ffl) = 1020
    /\ get_page_frame(pm, 2, 0) = -20

\* The allocations of the run so far: call i, k-th frame of the call.
AllocPositions ==
    {<<i, k>> : i \in 1..Len(allocs), k \in 1..2} \ {<<i, k>> \in (1..Len(allocs)) \X (1..2) : k > Len(allocs[i])}

\* C36. No frame is handed out twice: over a whole run, init followed by
\* any translations, the frames allocated by fault servicing are pairwise
\* distinct, each is a frame 2..1023, and none is a positive frame value
\* of an init record.
C36_NoFrameTwice ==
    pc # "init" =>
        /\ \A x \in AllocPositions : \A y \in AllocPositions :
              x # y => allocs[x[1]][x[2]] # allocs[y[1]][y[2]]
        /\ \A x \in AllocPositions :
              /\ allocs[x[1]][x[2]] >= ST_FRAMES /\ allocs[x[1]][x[2]] < NUM_FRAMES
              /\ \A i \in 1..Len(st_entries) : st_entries[i][3] # allocs[x[1]][x[2]]
              /\ \A i \in 1..Len(pt_entries) : pt_entries[i][3] # allocs[x[1]][x[2]]
              /\ ~is_free(ffl, allocs[x[1]][x[2]]) \/ pc = "aborted"

\* Frames 4 and 12 are named by the init file: (1, 1, 87) took frames 2
\* and 3, and (0, 1, 87) took frame 5, passing over 4.
C36_Witness ==
    /\ pc = "run"
    /\ st_entries = << <<0, 600, 4>>, <<1, 600, -7>> >>
    /\ pt_entries = << <<0, 0, 12>>, <<0, 1, -22>>, <<1, 1, -21>> >>
    /\ vas = <<Raw(1, 1, 87), Raw(0, 1, 87)>>
    /\ allocs = << <<2, 3>>, <<5>> >>
    /\ ~is_free(ffl, 4) /\ ~is_free(ffl, 12) /\ is_free(ffl, 6)

\* The size of segment s by the segment-table records alone: the last
\* record given for s, 0 if there is none.
SizeAfterST(s) ==
    LET given == {i \in 1..Len(st_entries) : st_entries[i][1] = s}
    IN IF given = {} THEN 0
       ELSE st_entries[CHOOSE i \in given : \A j \in given : j <= i][2]

\* Segments with a word in memory m or a record in the init file.
SegmentsInPlay(m) ==
    {x \div 2 : x \in {y \in DOMAIN m : y < ST_SIZE}}
    \cup {st_entries[i][1] : i \in 1..Len(st_entries)}
    \cup {pt_entries[i][1] : i \in 1..Len(pt_entries)}

C37_RecordInSegmentTable ==
    /\ pc = "run"
    /\ st_entries = << >>
    /\ pt_entries = << <<0, 1, 5>>, <<0, 0, 9>> >>
    /\ get_segment_size(pm, 0) = 0
    /\ get_segment_pt_location(pm, 0) = 5
    /\ Read(pm, 5 * PAGE_SIZE) = 9

\* C38. State on exhaustion: a demand-paging translation whose allocation
\* fails at the page-table fault leaves memory, disk and free list
\* unchanged, the location still negative; one whose allocation fails at
\* the page fault leaves the entry of the page negative, and changes
\* nothing if the page table was resident; if the page table was loaded by
\* the same translation, the last free frame holds it, the location of the
\* segment is that frame, and no other word has changed.
C38_StateOnExhaustion ==
    [][(TranslationStep /\ use_demand_paging /\ PassesBoundary) =>
          LET va   == CalledVA
              size == get_segment_size(pm, va.s)
              loc  == get_segment_pt_location(pm, va.s)
          IN /\ (loc < 0 /\ ffl = << >>) =>
                   /\ LastResult = InvalidSegment
                   /\ LastAllocs = << >>
                   /\ pm' = pm /\ disk' = disk /\ ffl' = ffl
                   /\ get_segment_pt_location(pm', va.s) = loc
             /\ (loc > 0 /\ PageWordInPM(loc, va.p)
                   /\ get_page_frame(pm, loc, va.p) < 0 /\ ffl = << >>) =>
                   /\ LastResult = InvalidPage
                   /\ LastAllocs = << >>
                   /\ pm' = pm /\ disk' = disk /\ ffl' = ffl
                   /\ get_page_frame(pm', loc, va.p) = get_page_frame(pm, loc, va.p)
             /\ (loc < 0 /\ InDisk(-loc) /\ Len(ffl) = 1
                   /\ DiskRead(disk, -loc, va.p) < 0) =>
                   LET f == ffl[1]
                   IN /\ LastResult = InvalidPage
                      /\ LastAllocs = <<f>>
                      /\ ffl' = << >> /\ disk' = disk
                      /\ get_segment_size(pm', va.s) = size
                      /\ get_segment_pt_location(pm', va.s) = f
                      /\ get_page_frame(pm', f, va.p) = DiskRead(disk, -loc, va.p)
                      /\ \A x \in DOMAIN pm \cup DOMAIN pm'
                                 \cup {f * PAGE_SIZE + i : i \in DOMAIN Block(disk, -loc)} :
                            IF x \div PAGE_SIZE = f
                            THEN Read(pm', x) = DiskRead(disk, -loc, x - f * PAGE_SIZE)
                            ELSE x # 2 * va.s + 1 => Read(pm', x) = Read(pm, x)
    ]_vars

\* One frame was free: (1, 1, 87) loaded the page table of segment 1 from
\* block 7 into frame 2 and found no frame for page 1, which is still on
\* block 21; (1, 0, 10) then found no frame for page 0 either, and a third
\* translation has been made.
C38_Witness ==
    /\ use_demand_paging
    /\ pc = "run"
    /\ ffl = << >>
    /\ Len(vas) = 3
    /\ vas[1] = Raw(1, 1, 87) /\ vas[2] = Raw(1, 0, 10)
    /\ allocs[1] = <<2>> /\ allocs[2] = << >>
    /\ results[1] = InvalidPage /\ results[2] = InvalidPage
    /\ get_segment_pt_location(pm, 1) = 2
    /\ get_page_frame(pm, 2, 1) = -21
    /\ get_page_frame(pm, 2, 0) = -20

====
